---- MODULE Spec2Model ----
(***************************************************************************)
(* Model of GoogleProvider (app/lib/modules/llm/providers/google.ts):      *)
(* the static catalog, getDynamicModels (key check, one request to the     *)
(* model-listing endpoint, validation, filter and map of the vendor list)  *)
(* and getModelInstance (key check, SDK provider, patched fetch).          *)
(*                                                                         *)
(* JavaScript strings whose content the code inspects (model names,        *)
(* request bodies) are sequences of one-character strings, so that         *)
(* includes(), replace(), JSON.parse and JSON.stringify are computed.      *)
(***************************************************************************)
EXTENDS Integers, Sequences, FiniteSets, TLC

VARIABLES
  name,          \* GoogleProvider.name
  config,        \* GoogleProvider.config
  staticModels,  \* GoogleProvider.staticModels
  dpc,           \* getDynamicModels call -> "idle" | "awaitFetch" | "awaitJson" | "done"
  dKey,          \* getDynamicModels call -> apiKey resolved for the call
  dReq,          \* getDynamicModels call -> sequence of requests sent to the listing endpoint
  dResp,         \* getDynamicModels call -> response the call received
  dOut,          \* getDynamicModels call -> outcome of the call
  iKey,          \* getModelInstance call -> apiKey resolved for the call
  iSdk,          \* getModelInstance call -> SDK providers constructed by the call
  iOut,          \* getModelInstance call -> outcome of the call
  opts,          \* the caller's RequestInit object handed to the patched fetch
  sent,          \* invocations of the patched fetch with the current opts object
  fwd,           \* invocations of originalFetch with the current opts object
  warned         \* console.warn calls of the patched fetch with the current opts object

vars == <<name, config, staticModels, dpc, dKey, dReq, dResp, dOut,
          iKey, iSdk, iOut, opts, sent, fwd, warned>>

provVars == <<name, config, staticModels>>
dynVars == <<dpc, dKey, dReq, dResp, dOut>>
instVars == <<iKey, iSdk, iOut>>
fetchVars == <<opts, sent, fwd, warned>>

----------------------------------------------------------------------------
(* Bounds *)

MaxCalls == 2        \* getDynamicModels calls that may be in flight together
MaxInstances == 2    \* getModelInstance calls
MaxModels == 2       \* length of the vendor's model list
MaxFields == 2       \* top-level members of a request body
MaxPasses == 2       \* times one opts object is passed through the patched fetch

Calls == 1..MaxCalls
Instances == 1..MaxInstances

BoundedSeq(S, n) == UNION {[1..k -> S] : k \in 0..n}

----------------------------------------------------------------------------
(* Strings as sequences of characters *)

\* s.includes(sub)
Includes(s, sub) ==
  \E i \in 0..(Len(s) - Len(sub)) : SubSeq(s, i + 1, i + Len(sub)) = sub

\* index of the first occurrence of pat in s, 0 when there is none
IndexOf(s, pat) ==
  IF Includes(s, pat)
    THEN CHOOSE i \in 1..(Len(s) - Len(pat) + 1) :
           /\ SubSeq(s, i, i + Len(pat) - 1) = pat
           /\ \A j \in 1..(i - 1) : SubSeq(s, j, j + Len(pat) - 1) # pat
    ELSE 0

\* s.replace(pat, rep) with a string pattern: only the first occurrence
ReplaceFirst(s, pat, rep) ==
  LET i == IndexOf(s, pat)
  IN IF i = 0 THEN s
     ELSE SubSeq(s, 1, i - 1) \o rep \o SubSeq(s, i + Len(pat), Len(s))

txtModels == <<"m","o","d","e","l","s","/">>
txtExp == <<"e","x","p">>
txtFlashExp == <<"f","l","a","s","h","-","e","x","p">>
txtGemini15Pro == <<"g","e","m","i","n","i","-","1",".","5","-","p","r","o">>
txtGemini15Flash == <<"g","e","m","i","n","i","-","1",".","5","-","f","l","a","s","h">>

----------------------------------------------------------------------------
(* The provider *)

ProviderName == "Google"

ProviderConfig == [apiTokenKey |-> "GOOGLE_GENERATIVE_AI_API_KEY"]

StaticModels ==
  << [name |-> "gemini-2.5-pro", label |-> "Gemini 2.5 Pro", provider |-> "Google",
      maxTokenAllowed |-> 1048576, maxCompletionTokens |-> 65536],
     [name |-> "gemini-2.5-flash", label |-> "Gemini 2.5 Flash", provider |-> "Google",
      maxTokenAllowed |-> 1048576, maxCompletionTokens |-> 65536] >>

\* values getProviderBaseUrlAndKey can hand back as apiKey
NoKey == [t |-> "undefined"]
EmptyKey == [t |-> "string", len |-> 0]
GoodKey == [t |-> "string", len |-> 39]
ApiKeys == {NoKey, EmptyKey, GoodKey}

\* variant: the check tests for undefined only, an empty key passes
HasApiKey_DefinedOnly(apiKey) == apiKey.t = "string"

\* !apiKey is false
HasApiKey(apiKey) == apiKey.t = "string" /\ apiKey.len > 0

\* serverEnv as far as the two operations read it
ServerEnvs == { [x \in {} |-> ""],
                [GOOGLE_API_VERSION |-> "v1", GOOGLE_BASE_URL |-> "https://proxy.local"] }

\* serverEnv?.[k] || dflt
EnvOr(env, k, dflt) == IF k \in DOMAIN env /\ env[k] # "" THEN env[k] ELSE dflt

ApiVersion(env) == EnvOr(env, "GOOGLE_API_VERSION", "v1beta")
BaseUrl(env) == EnvOr(env, "GOOGLE_BASE_URL", "https://generativelanguage.googleapis.com")

\* `${BASE_URL}/${API_VERSION}/models?key=${apiKey}`
ModelsEndpoint(env, apiKey) ==
  [base |-> BaseUrl(env), version |-> ApiVersion(env), path |-> "models", key |-> apiKey]

----------------------------------------------------------------------------
(* The vendor's model list *)

NamePrefixes == { <<>>, txtModels, txtModels \o txtModels }
NameBases == { txtGemini15Pro, txtGemini15Flash,
               <<"g","e","m","i","n","i","-","2",".","0","-","f","l","a","s","h">>,
               <<"g","e","m","i","n","i","-","1",".","5","-">> \o txtModels \o <<"p","r","o">> }
NameSuffixes == { <<>>, <<"-">> \o txtExp }
VendorNames == { p \o b \o s : p \in NamePrefixes, b \in NameBases, s \in NameSuffixes }

OutputLimits == {0, 8000, 8001, 8192, 128000, 200000}
InputLimits == {0, 999, 999999, 1000000, 1048576}

\* a vendor model; its displayName is a text of its own, here the pair
DisplayName(n, lim) == <<n, lim>>

VendorModel(n, lim) ==
  [f \in {"name", "displayName"} \cup DOMAIN lim |->
     IF f = "name" THEN n ELSE IF f = "displayName" THEN DisplayName(n, lim) ELSE lim[f]]

\* a model without a name, which the code does not rule out
NamelessModel ==
  [displayName |-> DisplayName(<<"?">>, [outputTokenLimit |-> 65536]), outputTokenLimit |-> 65536]

\* every name with good limits, and one name with every combination of
\* present, absent and zero limits
VendorModels ==
  { VendorModel(n, [outputTokenLimit |-> 65536, inputTokenLimit |-> 30720]) : n \in VendorNames }
  \cup { VendorModel(txtModels \o txtGemini15Pro, [outputTokenLimit |-> 8192]),
         NamelessModel }
  \cup { VendorModel(<<"m","o","d","e","l","s","/","a","q","a">>, l) :
           l \in {[x \in {} |-> 0]}
                 \cup {[outputTokenLimit |-> o] : o \in OutputLimits}
                 \cup {[inputTokenLimit |-> i] : i \in InputLimits}
                 \cup {[outputTokenLimit |-> o, inputTokenLimit |-> i] :
                         o \in {8001, 200000}, i \in InputLimits} }

\* model.f || dflt for a numeric member
NumOr(m, f, dflt) == IF f \in DOMAIN m /\ m[f] # 0 THEN m[f] ELSE dflt

Min(a, b) == IF a <= b THEN a ELSE b

\* variant: the limit test is >= 8000
KeepModel_AtLeast(model) ==
  LET hasGoodTokenLimit == NumOr(model, "outputTokenLimit", 0) >= 8000
      isStable == ~Includes(model.name, txtExp) \/ Includes(model.name, txtFlashExp)
  IN hasGoodTokenLimit /\ isStable

\* the callback of res.models.filter
KeepModel(model) ==
  LET hasGoodTokenLimit == NumOr(model, "outputTokenLimit", 0) > 8000
      isStable == ~Includes(model.name, txtExp) \/ Includes(model.name, txtFlashExp)
  IN hasGoodTokenLimit /\ isStable

\* Array.prototype.filter
RECURSIVE Filter(_)
Filter(models) ==
  IF models = <<>> THEN <<>>
  ELSE (IF KeepModel(Head(models)) THEN <<Head(models)>> ELSE <<>>) \o Filter(Tail(models))

\* variant: the two includes() tests read m.name, not modelName
ContextWindow_RawName(m, modelName) ==
  LET cw0 == NumOr(m, "inputTokenLimit", 32000)
      cw1 == IF Includes(m.name, txtGemini15Pro) THEN 2000000 ELSE cw0
  IN IF Includes(m.name, txtGemini15Flash) THEN 1000000 ELSE cw1

\* the context window the map callback computes
ContextWindow(m, modelName) ==
  LET cw0 == NumOr(m, "inputTokenLimit", 32000)
      cw1 == IF Includes(modelName, txtGemini15Pro) THEN 2000000 ELSE cw0
  IN IF Includes(modelName, txtGemini15Flash) THEN 1000000 ELSE cw1

\* the template literal of the label: `${displayName} (${amount}${unit} context)`
Label(displayName, contextWindow) ==
  IF contextWindow >= 1000000
    THEN [displayName |-> displayName, amount |-> contextWindow \div 1000000, unit |-> "M"]
    ELSE [displayName |-> displayName, amount |-> contextWindow \div 1000, unit |-> "k"]

\* variant: the completion tokens are not capped at 128000
ToModelInfo_NoCap(m, provider) ==
  LET modelName == ReplaceFirst(m.name, txtModels, <<>>)
      contextWindow == ContextWindow(m, modelName)
      completionTokens == NumOr(m, "outputTokenLimit", 8192)
  IN [name |-> modelName,
      label |-> Label(m.displayName, contextWindow),
      provider |-> provider,
      maxTokenAllowed |-> contextWindow,
      maxCompletionTokens |-> completionTokens]

\* the callback of data.map
ToModelInfo(m, provider) ==
  LET modelName == ReplaceFirst(m.name, txtModels, <<>>)
      contextWindow == ContextWindow(m, modelName)
      completionTokens == Min(NumOr(m, "outputTokenLimit", 8192), 128000)
  IN [name |-> modelName,
      label |-> Label(m.displayName, contextWindow),
      provider |-> provider,
      maxTokenAllowed |-> contextWindow,
      maxCompletionTokens |-> completionTokens]

\* data.map(...)
MapModels(data, provider) == [i \in 1..Len(data) |-> ToModelInfo(data[i], provider)]

----------------------------------------------------------------------------
(* Responses of the model-listing endpoint *)

\* JSON bodies that are not an object with an array 'models'
BadBodies ==
  { [t |-> "null"], [t |-> "number"], [t |-> "string"], [t |-> "array"],
    [t |-> "object", hasModels |-> FALSE],
    [t |-> "object", hasModels |-> TRUE, models |-> [t |-> "null"]],
    [t |-> "object", hasModels |-> TRUE, models |-> [t |-> "falsy"]],
    [t |-> "object", hasModels |-> TRUE, models |-> [t |-> "string"]],
    [t |-> "object", hasModels |-> TRUE, models |-> [t |-> "object"]] }

ListBody(list) ==
  [t |-> "object", hasModels |-> TRUE, models |-> [t |-> "array", items |-> list]]

\* a response: ok or not, and what response.json() would give
OkResponse(body) == [t |-> "response", ok |-> TRUE, json |-> "value", body |-> body]
NotOkResponse(body) == [t |-> "response", ok |-> FALSE, json |-> "value", body |-> body]

\* the fetch rejects, the status is not ok (with an error body, or with a
\* listing all the same), or the body is not JSON
FailedResponses ==
  { [t |-> "rejected"],
    NotOkResponse([t |-> "object", hasModels |-> FALSE]),
    NotOkResponse(ListBody(<<>>)),
    [t |-> "response", ok |-> TRUE, json |-> "rejected"] }

Responses(models, n) ==
  FailedResponses
  \cup { OkResponse(b) : b \in BadBodies }
  \cup { OkResponse(ListBody(l)) : l \in BoundedSeq(models, n) }

\* the responses of the concurrent specification: one of each kind
FewModels ==
  { VendorModel(txtModels \o txtGemini15Pro, [outputTokenLimit |-> 8192, inputTokenLimit |-> 30720]),
    VendorModel(txtModels \o txtGemini15Flash, [outputTokenLimit |-> 8000]) }

FewResponses ==
  FailedResponses
  \cup { OkResponse([t |-> "object", hasModels |-> FALSE]) }
  \cup { OkResponse(ListBody(l)) : l \in BoundedSeq(FewModels, 1) }

\* the condition of the 'Invalid response format' throw, negated
ValidBody(body) ==
  ~ \/ body.t = "null"                          \* !body
    \/ body.t \notin {"object", "array"}        \* typeof body !== 'object'
    \/ body.t = "array" \/ ~body.hasModels       \* !('models' in body)
    \/ body.models.t \in {"null", "falsy"}       \* !body.models
    \/ body.models.t # "array"                   \* !Array.isArray(body.models)

Threw(err) == [t |-> "threw", err |-> err]
Returned(list) == [t |-> "returned", list |-> list]
NoOutcome == [t |-> "none"]
NoResponse == [t |-> "none"]

\* getDynamicModels from 'await response.json()' on; the filter callback
\* reads model.name.includes and throws a TypeError on a model without a name
ListModels(resp, provider) ==
  IF resp.json = "rejected" THEN Threw("SyntaxError")
  ELSE IF ~ValidBody(resp.body) THEN Threw("Invalid response format from Google API")
  ELSE IF \E i \in 1..Len(resp.body.models.items) : "name" \notin DOMAIN resp.body.models.items[i]
    THEN Threw("TypeError")
  ELSE Returned(MapModels(Filter(resp.body.models.items), provider))

----------------------------------------------------------------------------
(* getDynamicModels *)

\* the call up to its first await: the key check and the request
GetDynamicModels(c, apiKey, env) ==
  /\ dpc[c] = "idle"
  /\ dKey' = [dKey EXCEPT ![c] = apiKey]
  /\ IF ~HasApiKey(apiKey)
       THEN /\ dpc' = [dpc EXCEPT ![c] = "done"]
            /\ dOut' = [dOut EXCEPT ![c] = Threw("Missing Api Key configuration")]
            /\ dReq' = dReq
       ELSE /\ dpc' = [dpc EXCEPT ![c] = "awaitFetch"]
            /\ dReq' = [dReq EXCEPT ![c] = Append(@, ModelsEndpoint(env, apiKey))]
            /\ dOut' = dOut
  /\ UNCHANGED <<dResp, provVars, instVars, fetchVars>>

\* variant: response.ok is not tested
FetchSettles_NoOkCheck(c, resp) ==
  /\ dpc[c] = "awaitFetch"
  /\ dResp' = [dResp EXCEPT ![c] = resp]
  /\ IF resp.t = "rejected"
       THEN /\ dpc' = [dpc EXCEPT ![c] = "done"]
            /\ dOut' = [dOut EXCEPT ![c] = Threw("fetch rejected")]
       ELSE /\ dpc' = [dpc EXCEPT ![c] = "awaitJson"]
            /\ dOut' = dOut
  /\ UNCHANGED <<dKey, dReq, provVars, instVars, fetchVars>>

\* variant: a response that is not ok is answered by one more request
FetchSettles_Retry(c, resp) ==
  /\ dpc[c] = "awaitFetch"
  /\ dResp' = [dResp EXCEPT ![c] = resp]
  /\ IF resp.t = "rejected"
       THEN /\ dpc' = [dpc EXCEPT ![c] = "done"]
            /\ dOut' = [dOut EXCEPT ![c] = Threw("fetch rejected")]
            /\ dReq' = dReq
       ELSE IF ~resp.ok
         THEN IF Len(dReq[c]) < 2
                THEN /\ dReq' = [dReq EXCEPT ![c] = Append(@, @[1])]
                     /\ UNCHANGED <<dpc, dOut>>
                ELSE /\ dpc' = [dpc EXCEPT ![c] = "done"]
                     /\ dOut' = [dOut EXCEPT ![c] = Threw("Failed to fetch models from Google API")]
                     /\ dReq' = dReq
         ELSE /\ dpc' = [dpc EXCEPT ![c] = "awaitJson"]
              /\ dOut' = dOut
              /\ dReq' = dReq
  /\ UNCHANGED <<dKey, provVars, instVars, fetchVars>>

\* the fetch settles: rejection, a response that is not ok, or an ok response
FetchSettles(c, resp) ==
  /\ dpc[c] = "awaitFetch"
  /\ dResp' = [dResp EXCEPT ![c] = resp]
  /\ IF resp.t = "rejected"
       THEN /\ dpc' = [dpc EXCEPT ![c] = "done"]
            /\ dOut' = [dOut EXCEPT ![c] = Threw("fetch rejected")]
       ELSE IF ~resp.ok
         THEN /\ dpc' = [dpc EXCEPT ![c] = "done"]
              /\ dOut' = [dOut EXCEPT ![c] = Threw("Failed to fetch models from Google API")]
         ELSE /\ dpc' = [dpc EXCEPT ![c] = "awaitJson"]
              /\ dOut' = dOut
  /\ UNCHANGED <<dKey, dReq, provVars, instVars, fetchVars>>

\* variant: the response is kept in one place for all calls, and the
\* call reads the one stored last
JsonSettles_Shared(c) ==
  /\ dpc[c] = "awaitJson"
  /\ dpc' = [dpc EXCEPT ![c] = "done"]
  /\ LET others == {d \in Calls : d # c /\ dpc[d] = "awaitJson"}
         from == IF others = {} THEN c ELSE CHOOSE d \in others : TRUE
     IN dOut' = [dOut EXCEPT ![c] = ListModels(dResp[from], name)]
  /\ UNCHANGED <<dKey, dReq, dResp, provVars, instVars, fetchVars>>

\* response.json() settles: validation, filter, map, return
JsonSettles(c) ==
  /\ dpc[c] = "awaitJson"
  /\ dpc' = [dpc EXCEPT ![c] = "done"]
  /\ dOut' = [dOut EXCEPT ![c] = ListModels(dResp[c], name)]
  /\ UNCHANGED <<dKey, dReq, dResp, provVars, instVars, fetchVars>>

----------------------------------------------------------------------------
(* JSON values, JSON.parse and JSON.stringify *)

JUndefined == [t |-> "undefined"]
JNull == [t |-> "null"]
JBool(b) == [t |-> "boolean", b |-> b]
JNum(n) == [t |-> "number", n |-> n]
JStr(s) == [t |-> "string", s |-> s]
JArr(items) == [t |-> "array", items |-> items]
\* an object is its members in insertion order, each key once
JObj(members) == [t |-> "object", members |-> members]

Member(k, v) == [k |-> k, v |-> v]

HasMember(members, k) == \E i \in 1..Len(members) : members[i].k = k

\* obj[k]
GetMember(members, k) ==
  IF HasMember(members, k)
    THEN members[CHOOSE i \in 1..Len(members) : members[i].k = k].v
    ELSE JUndefined

\* obj[k] = v: an existing key keeps its place, a new key goes last
SetMember(members, k, v) ==
  IF HasMember(members, k)
    THEN [i \in 1..Len(members) |-> IF members[i].k = k THEN Member(k, v) ELSE members[i]]
    ELSE Append(members, Member(k, v))

\* delete obj[k]
RECURSIVE DeleteMember(_, _)
DeleteMember(members, k) ==
  IF members = <<>> THEN <<>>
  ELSE (IF Head(members).k = k THEN <<>> ELSE <<Head(members)>>) \o DeleteMember(Tail(members), k)

\* ToBoolean
Truthy(v) ==
  CASE v.t = "undefined" -> FALSE
    [] v.t = "null" -> FALSE
    [] v.t = "boolean" -> v.b
    [] v.t = "number" -> v.n # 0
    [] v.t = "string" -> v.s # <<>>
    [] OTHER -> TRUE

Quote == "\""
Backslash == "\\"
Digits == <<"0","1","2","3","4","5","6","7","8","9">>
txtNull == <<"n","u","l","l">>
txtTrue == <<"t","r","u","e">>
txtFalse == <<"f","a","l","s","e">>

ParseFail == [ok |-> FALSE]
ParseOk(v, i) == [ok |-> TRUE, v |-> v, i |-> i]

\* the character at position i, "" past the end
Ch(s, i) == IF i >= 1 /\ i <= Len(s) THEN s[i] ELSE ""

RECURSIVE SkipWs(_, _)
SkipWs(s, i) == IF Ch(s, i) = " " THEN SkipWs(s, i + 1) ELSE i

\* the character of a \uXXXX escape (the code points the requests use)
Unicode(hex) ==
  IF hex = <<"0","0","4","9">> THEN "I"
  ELSE IF hex = <<"0","0","2","2">> THEN Quote
  ELSE "?"

\* the rest of a string literal, from after its opening quote
RECURSIVE ParseChars(_, _, _)
ParseChars(s, i, acc) ==
  LET c == Ch(s, i)
      e == Ch(s, i + 1)
  IN IF c = "" THEN ParseFail
     ELSE IF c = Quote THEN ParseOk(JStr(acc), i + 1)
     ELSE IF c = Backslash
       THEN IF e = Quote \/ e = Backslash THEN ParseChars(s, i + 2, Append(acc, e))
            ELSE IF e = "u" /\ i + 5 <= Len(s)
              THEN ParseChars(s, i + 6, Append(acc, Unicode(SubSeq(s, i + 2, i + 5))))
            ELSE ParseFail
     ELSE ParseChars(s, i + 1, Append(acc, c))

RECURSIVE ParseValue(_, _), ParseMembers(_, _, _, _), ParseItems(_, _, _, _)

\* a JSON value that starts at position i
ParseValue(s, i) ==
  LET c == Ch(s, i)
  IN IF c = Quote THEN ParseChars(s, i + 1, <<>>)
     ELSE IF c = "{" THEN ParseMembers(s, SkipWs(s, i + 1), <<>>, TRUE)
     ELSE IF c = "[" THEN ParseItems(s, SkipWs(s, i + 1), <<>>, TRUE)
     ELSE IF \E d \in 1..10 : Digits[d] = c
       THEN ParseOk(JNum((CHOOSE d \in 1..10 : Digits[d] = c) - 1), i + 1)
     ELSE IF i + 3 <= Len(s) /\ SubSeq(s, i, i + 3) = txtNull THEN ParseOk(JNull, i + 4)
     ELSE IF i + 3 <= Len(s) /\ SubSeq(s, i, i + 3) = txtTrue THEN ParseOk(JBool(TRUE), i + 4)
     ELSE IF i + 4 <= Len(s) /\ SubSeq(s, i, i + 4) = txtFalse THEN ParseOk(JBool(FALSE), i + 5)
     ELSE ParseFail

\* the members of an object, from after '{' or ','; a repeated key keeps
\* its first place and its last value
ParseMembers(s, i, acc, first) ==
  IF first /\ Ch(s, i) = "}" THEN ParseOk(JObj(acc), i + 1)
  ELSE IF Ch(s, i) # Quote THEN ParseFail
  ELSE LET k == ParseChars(s, i + 1, <<>>)
       IN IF ~k.ok THEN ParseFail
          ELSE LET j == SkipWs(s, k.i)
               IN IF Ch(s, j) # ":" THEN ParseFail
                  ELSE LET v == ParseValue(s, SkipWs(s, j + 1))
                       IN IF ~v.ok THEN ParseFail
                          ELSE LET n == SkipWs(s, v.i)
                                   acc2 == SetMember(acc, k.v.s, v.v)
                               IN IF Ch(s, n) = ","
                                    THEN ParseMembers(s, SkipWs(s, n + 1), acc2, FALSE)
                                  ELSE IF Ch(s, n) = "}" THEN ParseOk(JObj(acc2), n + 1)
                                  ELSE ParseFail

\* the items of an array, from after '[' or ','
ParseItems(s, i, acc, first) ==
  IF first /\ Ch(s, i) = "]" THEN ParseOk(JArr(acc), i + 1)
  ELSE LET v == ParseValue(s, i)
       IN IF ~v.ok THEN ParseFail
          ELSE LET n == SkipWs(s, v.i)
                   acc2 == Append(acc, v.v)
               IN IF Ch(s, n) = "," THEN ParseItems(s, SkipWs(s, n + 1), acc2, FALSE)
                  ELSE IF Ch(s, n) = "]" THEN ParseOk(JArr(acc2), n + 1)
                  ELSE ParseFail

\* JSON.parse(s); ok = FALSE stands for the SyntaxError
JsonParse(s) ==
  LET r == ParseValue(s, SkipWs(s, 1))
  IN IF r.ok /\ SkipWs(s, r.i) = Len(s) + 1 THEN [ok |-> TRUE, v |-> r.v] ELSE ParseFail

\* a string literal for s
RECURSIVE EscapeChars(_)
EscapeChars(s) ==
  IF s = <<>> THEN <<>>
  ELSE (IF Head(s) = Quote \/ Head(s) = Backslash THEN <<Backslash, Head(s)>> ELSE <<Head(s)>>)
       \o EscapeChars(Tail(s))

QuoteString(s) == <<Quote>> \o EscapeChars(s) \o <<Quote>>

RECURSIVE JsonStringify(_), StringifyMembers(_, _), StringifyItems(_, _)

\* JSON.stringify(v) for a value that is not undefined
JsonStringify(v) ==
  CASE v.t = "null" -> txtNull
    [] v.t = "boolean" -> IF v.b THEN txtTrue ELSE txtFalse
    [] v.t = "number" -> <<Digits[v.n + 1]>>
    [] v.t = "string" -> QuoteString(v.s)
    [] v.t = "array" -> <<"[">> \o StringifyItems(v.items, TRUE) \o <<"]">>
    [] v.t = "object" -> <<"{">> \o StringifyMembers(v.members, TRUE) \o <<"}">>

\* members whose value is undefined are left out
StringifyMembers(members, first) ==
  IF members = <<>> THEN <<>>
  ELSE IF Head(members).v.t = "undefined" THEN StringifyMembers(Tail(members), first)
  ELSE (IF first THEN <<>> ELSE <<",">>)
       \o QuoteString(Head(members).k) \o <<":">> \o JsonStringify(Head(members).v)
       \o StringifyMembers(Tail(members), FALSE)

StringifyItems(items, first) ==
  IF items = <<>> THEN <<>>
  ELSE (IF first THEN <<>> ELSE <<",">>)
       \o (IF Head(items).t = "undefined" THEN txtNull ELSE JsonStringify(Head(items)))
       \o StringifyItems(Tail(items), FALSE)

----------------------------------------------------------------------------
(* The patched fetch *)

txtSystemInstruction ==
  <<"s","y","s","t","e","m","I","n","s","t","r","u","c","t","i","o","n">>
txtSystemUnderscore ==
  <<"s","y","s","t","e","m","_","i","n","s","t","r","u","c","t","i","o","n">>
\* the text '"systemInstruction"' the body is searched for
txtNeedle == <<Quote>> \o txtSystemInstruction \o <<Quote>>

\* opts and opts.body
Unbuilt == [t |-> "unbuilt"]
NoOpts == [t |-> "undefined"]
OptsOf(body) == [t |-> "init", body |-> body]
NoBody == [t |-> "undefined"]
BytesBody == [t |-> "bytes"]
StringBody(s) == [t |-> "string", s |-> s]

\* opts?.body
BodyOf(o) == IF o.t = "init" THEN o.body ELSE NoBody

\* variant: the body is not searched for the text
ShouldInspect_NoTextCheck(o) ==
  BodyOf(o).t = "string" /\ BodyOf(o).s # <<>>

\* opts?.body && typeof opts.body === 'string' && opts.body.includes('"systemInstruction"')
ShouldInspect(o) ==
  /\ BodyOf(o).t = "string" /\ BodyOf(o).s # <<>>
  /\ Includes(BodyOf(o).s, txtNeedle)

\* parsed.systemInstruction: undefined on a primitive or an array,
\* a TypeError on null
ReadSystemInstruction(parsed) ==
  IF parsed.t = "null" THEN [ok |-> FALSE]
  ELSE IF parsed.t = "object"
    THEN [ok |-> TRUE, v |-> GetMember(parsed.members, txtSystemInstruction)]
  ELSE [ok |-> TRUE, v |-> JUndefined]

\* variant: the old member is not deleted
Rename_NoDelete(parsed) ==
  JObj(SetMember(parsed.members, txtSystemUnderscore,
                 GetMember(parsed.members, txtSystemInstruction)))

\* parsed.system_instruction = parsed.systemInstruction; delete parsed.systemInstruction
Rename(parsed) ==
  JObj(DeleteMember(SetMember(parsed.members, txtSystemUnderscore,
                              GetMember(parsed.members, txtSystemInstruction)),
                    txtSystemInstruction))

\* variant: the member is renamed without the test that it is truthy
PatchBody_NoGuard(o) ==
  IF ~ShouldInspect(o) THEN [body |-> BodyOf(o), caught |-> FALSE]
  ELSE LET p == JsonParse(BodyOf(o).s)
       IN IF ~p.ok THEN [body |-> BodyOf(o), caught |-> TRUE]
          ELSE IF p.v.t # "object" THEN [body |-> BodyOf(o), caught |-> FALSE]
          ELSE [body |-> StringBody(JsonStringify(Rename(p.v))), caught |-> FALSE]

\* the try block: the body of opts after it and whether the catch ran
PatchBody(o) ==
  IF ~ShouldInspect(o) THEN [body |-> BodyOf(o), caught |-> FALSE]
  ELSE LET p == JsonParse(BodyOf(o).s)
       IN IF ~p.ok THEN [body |-> BodyOf(o), caught |-> TRUE]
          ELSE LET si == ReadSystemInstruction(p.v)
               IN IF ~si.ok THEN [body |-> BodyOf(o), caught |-> TRUE]
                  ELSE IF Truthy(si.v)
                    THEN [body |-> StringBody(JsonStringify(Rename(p.v))), caught |-> FALSE]
                  ELSE [body |-> BodyOf(o), caught |-> FALSE]

\* request bodies: objects of up to MaxFields members, and texts that are
\* not objects or not JSON
KeyTexts ==
  { QuoteString(txtSystemInstruction),
    QuoteString(txtSystemUnderscore),
    QuoteString(<<"c">>),
    <<Quote,"s","y","s","t","e","m",Backslash,"u","0","0","4","9">>
      \o <<"n","s","t","r","u","c","t","i","o","n",Quote>> }

ValueTexts ==
  { QuoteString(<<"x">>), QuoteString(<<>>),
    <<"{">> \o txtNeedle \o <<":">> \o QuoteString(<<"y">>) \o <<"}">> }

FieldTexts ==
  { k \o <<":">> \o v : k \in KeyTexts, v \in ValueTexts }
  \cup { QuoteString(txtSystemInstruction) \o <<" ",":"," ","1">>,
         QuoteString(txtSystemUnderscore) \o <<":">> \o QuoteString(<<"y">>),
         QuoteString(<<"c">>) \o <<":">> \o QuoteString(<<"a", Quote>> \o txtSystemInstruction) }

RECURSIVE JoinFields(_)
JoinFields(fs) ==
  IF fs = <<>> THEN <<>>
  ELSE Head(fs) \o (IF Len(fs) > 1 THEN <<",">> ELSE <<>>) \o JoinFields(Tail(fs))

BodyTexts ==
  { <<"{">> \o JoinFields(fs) \o <<"}">> : fs \in BoundedSeq(FieldTexts, MaxFields) }
  \cup { txtNeedle,
         <<"[">> \o txtNeedle \o <<"]">>,
         <<"{">> \o txtNeedle \o <<":">>,
         <<"{">> \o txtNeedle \o <<":">> \o QuoteString(<<"x">>) \o <<",","}">> ,
         txtSystemInstruction }

RequestInits ==
  { NoOpts, OptsOf(NoBody), OptsOf(BytesBody), OptsOf(StringBody(<<>>)) }
  \cup { OptsOf(StringBody(b)) : b \in BodyTexts }

Urls == {"generateContent", "streamGenerateContent"}

----------------------------------------------------------------------------
(* getModelInstance *)

\* `${BASE_URL}/${API_VERSION}`
Endpoint(env) == [base |-> BaseUrl(env), version |-> ApiVersion(env)]

\* the whole call: key check, SDK provider, model handle with the patched fetch
GetModelInstance(h, apiKey, env) ==
  /\ iOut[h].t = "none"
  /\ iKey' = [iKey EXCEPT ![h] = apiKey]
  /\ IF ~HasApiKey(apiKey)
       THEN /\ iOut' = [iOut EXCEPT ![h] = Threw("Missing API key")]
            /\ iSdk' = iSdk
       ELSE /\ iSdk' = [iSdk EXCEPT ![h] = Append(@, [apiKey |-> apiKey, baseUrl |-> Endpoint(env)])]
            /\ iOut' = [iOut EXCEPT ![h] = [t |-> "handle", patched |-> TRUE]]
  /\ UNCHANGED <<provVars, dynVars, fetchVars>>

\* the caller builds the RequestInit of its request
NewRequest(o) ==
  /\ opts = Unbuilt
  /\ opts' = o
  /\ sent' = <<>>
  /\ fwd' = <<>>
  /\ warned' = 0
  /\ UNCHANGED <<provVars, dynVars, instVars>>

\* modelInstance.config.fetch(url, opts) of handle h
PatchedFetch(h, url) ==
  /\ iOut[h].t = "handle"
  /\ opts # Unbuilt
  /\ Len(sent) < MaxPasses
  /\ LET r == PatchBody(opts)
     IN /\ opts' = IF opts.t = "init" THEN OptsOf(r.body) ELSE opts
        /\ warned' = warned + (IF r.caught THEN 1 ELSE 0)
        /\ sent' = Append(sent, [handle |-> h, url |-> url, opts |-> opts])
        /\ fwd' = Append(fwd, [url |-> url, opts |-> opts'])
  /\ UNCHANGED <<provVars, dynVars, instVars>>

----------------------------------------------------------------------------
Init ==
  /\ name = ProviderName
  /\ config = ProviderConfig
  /\ staticModels = StaticModels
  /\ dpc = [c \in Calls |-> "idle"]
  /\ dKey = [c \in Calls |-> NoKey]
  /\ dReq = [c \in Calls |-> <<>>]
  /\ dResp = [c \in Calls |-> NoResponse]
  /\ dOut = [c \in Calls |-> NoOutcome]
  /\ iKey = [h \in Instances |-> NoKey]
  /\ iSdk = [h \in Instances |-> <<>>]
  /\ iOut = [h \in Instances |-> NoOutcome]
  /\ opts = Unbuilt
  /\ sent = <<>>
  /\ fwd = <<>>
  /\ warned = 0

DefaultEnv == [x \in {} |-> ""]

CallBegins == \E c \in Calls, k \in ApiKeys : GetDynamicModels(c, k, DefaultEnv)
CallFetchSettles ==
  \E c \in Calls : dpc[c] = "awaitFetch" /\ \E r \in FewResponses : FetchSettles(c, r)
CallJsonSettles == \E c \in Calls : JsonSettles(c)
InstanceMade == \E h \in Instances, k \in ApiKeys, e \in ServerEnvs : GetModelInstance(h, k, e)

Next == CallBegins \/ CallFetchSettles \/ CallJsonSettles \/ InstanceMade

Spec == Init /\ [][Next]_vars

\* one getDynamicModels call, every response
CatalogCallBegins == \E k \in ApiKeys, e \in ServerEnvs : GetDynamicModels(1, k, e)
CatalogResponses == Responses(VendorModels, MaxModels)

CatalogFetchSettles ==
  dpc[1] = "awaitFetch" /\ \E r \in CatalogResponses : FetchSettles(1, r)
CatalogJsonSettles == JsonSettles(1)

NextCatalog == CatalogCallBegins \/ CatalogFetchSettles \/ CatalogJsonSettles

SpecCatalog == Init /\ [][NextCatalog]_vars

\* one model handle and the requests sent through its fetch
FetchInstanceMade == \E k \in ApiKeys : GetModelInstance(1, k, DefaultEnv)
FetchNewRequest == opts = Unbuilt /\ \E o \in RequestInits : NewRequest(o)
FetchSent == \E u \in Urls : PatchedFetch(1, u)

NextFetch == FetchInstanceMade \/ FetchNewRequest \/ FetchSent

SpecFetch == Init /\ [][NextFetch]_vars

----------------------------------------------------------------------------
(* Claims *)

\* C1: when the resolved API key is empty or absent, getDynamicModels
\* throws, has sent no request and received no response, and
\* getModelInstance throws and has constructed no SDK provider and returned
\* no handle; the provider is as constructed.
MissingKeyThrows ==
  /\ \A c \in Calls :
       dpc[c] # "idle" /\ dKey[c] \in {NoKey, EmptyKey} =>
         /\ dpc[c] = "done" /\ dOut[c].t = "threw"
         /\ dReq[c] = <<>> /\ dResp[c] = NoResponse
  /\ \A h \in Instances :
       iOut[h].t # "none" /\ iKey[h] \in {NoKey, EmptyKey} =>
         iOut[h].t = "threw" /\ iSdk[h] = <<>>
  /\ (\E c \in Calls : dpc[c] # "idle") \/ (\E h \in Instances : iOut[h].t # "none") =>
       name = ProviderName /\ config = ProviderConfig /\ staticModels = StaticModels

MissingKeyThrowsWitness ==
  /\ \E c \in Calls : dpc[c] = "done" /\ dKey[c] = EmptyKey /\ dOut[c].t = "threw"
  /\ \E h \in Instances : iKey[h] = NoKey /\ iOut[h].t = "threw"
  /\ \E h \in Instances : iOut[h].t = "handle"

\* C2: a model list is returned only when the response is ok and its body
\* is an object whose 'models' is an array; after any other response the
\* finished call has thrown.
BadResponseThrows ==
  LET r == dResp[1]
      isListing == /\ r.t = "response" /\ r.ok /\ r.json = "value"
                   /\ r.body.t = "object" /\ r.body.hasModels
                   /\ r.body.models.t = "array"
  IN /\ dOut[1].t = "returned" => isListing
     /\ dpc[1] = "done" /\ r.t = "response" /\ ~isListing => dOut[1].t = "threw"

BadResponseThrowsWitness ==
  /\ dpc[1] = "done" /\ dOut[1].t = "threw"
  /\ dResp[1].t = "response" /\ dResp[1].ok /\ dResp[1].json = "value"
  /\ dResp[1].body.t = "object" /\ dResp[1].body.hasModels
  /\ dResp[1].body.models.t = "object"

\* C3: the returned list has exactly one entry for each vendor model whose
\* outputTokenLimit (0 when missing) is above 8000 and whose name has no
\* 'exp' or has 'flash-exp', no other entry, in the vendor's order.
CatalogIsFiltered ==
  dOut[1].t = "returned" =>
    LET vendor == dResp[1].body.models.items
        out == dOut[1].list
        limit(m) == IF "outputTokenLimit" \in DOMAIN m THEN m.outputTokenLimit ELSE 0
        good(m) == /\ limit(m) > 8000
                   /\ ~Includes(m.name, txtExp) \/ Includes(m.name, txtFlashExp)
        kept == {i \in 1..Len(vendor) : good(vendor[i])}
        nth(k) == CHOOSE i \in kept : Cardinality({j \in kept : j < i}) = k - 1
    IN /\ Len(out) = Cardinality(kept)
       /\ \A k \in 1..Len(out) : out[k].label.displayName = vendor[nth(k)].displayName

CatalogIsFilteredWitness ==
  /\ dOut[1].t = "returned"
  /\ Len(dOut[1].list) = 1
  /\ Len(dResp[1].body.models.items) = 2
  /\ Includes(dResp[1].body.models.items[1].name, txtExp)
  /\ Includes(dResp[1].body.models.items[2].name, txtFlashExp)

\* C5: every returned entry has maxCompletionTokens = min(outputTokenLimit
\* of its vendor model, 128000), which lies above 8000 and at most at
\* 128000, and its vendor model has an outputTokenLimit.
CompletionTokensCapped ==
  dOut[1].t = "returned" =>
    LET vendor == dResp[1].body.models.items
        out == dOut[1].list
    IN \A k \in 1..Len(out) :
         \E i \in 1..Len(vendor) :
           /\ vendor[i].displayName = out[k].label.displayName
           /\ "outputTokenLimit" \in DOMAIN vendor[i]
           /\ out[k].maxCompletionTokens =
                (IF vendor[i].outputTokenLimit < 128000 THEN vendor[i].outputTokenLimit ELSE 128000)
           /\ out[k].maxCompletionTokens > 8000
           /\ out[k].maxCompletionTokens <= 128000

CompletionTokensCappedWitness ==
  /\ dOut[1].t = "returned"
  /\ \E k \in 1..Len(dOut[1].list) : dOut[1].list[k].maxCompletionTokens = 128000
  /\ \E i \in 1..Len(dResp[1].body.models.items) :
       /\ "outputTokenLimit" \in DOMAIN dResp[1].body.models.items[i]
       /\ dResp[1].body.models.items[i].outputTokenLimit = 200000

\* C6: every returned entry has the vendor name without its first
\* 'models/', provider 'Google', maxTokenAllowed 1000000 for a name with
\* 'gemini-1.5-flash', else 2000000 for one with 'gemini-1.5-pro', else the
\* non-zero inputTokenLimit, else 32000, and a label in 'M' exactly from
\* 1000000 on.
ContextWindowRule ==
  dOut[1].t = "returned" =>
    LET vendor == dResp[1].body.models.items
        out == dOut[1].list
        stripped(vn, on) ==
          \/ ~Includes(vn, txtModels) /\ on = vn
          \/ \E i \in 1..Len(vn) :
               /\ i + 6 <= Len(vn) /\ SubSeq(vn, i, i + 6) = txtModels
               /\ \A j \in 1..(i - 1) : SubSeq(vn, j, j + 6) # txtModels
               /\ on = SubSeq(vn, 1, i - 1) \o SubSeq(vn, i + 7, Len(vn))
        window(m, on) ==
          IF Includes(on, txtGemini15Flash) THEN 1000000
          ELSE IF Includes(on, txtGemini15Pro) THEN 2000000
          ELSE IF "inputTokenLimit" \in DOMAIN m /\ m.inputTokenLimit # 0 THEN m.inputTokenLimit
          ELSE 32000
    IN \A k \in 1..Len(out) :
         \E i \in 1..Len(vendor) :
           /\ vendor[i].displayName = out[k].label.displayName
           /\ stripped(vendor[i].name, out[k].name)
           /\ out[k].provider = "Google"
           /\ out[k].maxTokenAllowed = window(vendor[i], out[k].name)
           /\ out[k].label.unit = (IF out[k].maxTokenAllowed >= 1000000 THEN "M" ELSE "k")

ContextWindowRuleWitness ==
  /\ dOut[1].t = "returned"
  /\ Len(dResp[1].body.models.items) = 1
  /\ ~Includes(dResp[1].body.models.items[1].name, txtGemini15Pro)
  /\ \E k \in 1..Len(dOut[1].list) :
       /\ dOut[1].list[k].maxTokenAllowed = 2000000
       /\ dOut[1].list[k].label.unit = "M"

\* C7: a call sends at most one request, only with a key that passed the
\* check, none after its response arrived, and it has an outcome (a list or
\* an error, one of the two) exactly when it is done.
NoRetries ==
  \A c \in Calls :
    /\ Len(dReq[c]) <= 1
    /\ dReq[c] # <<>> => dKey[c] \notin {NoKey, EmptyKey}
    /\ dResp[c] # NoResponse => Len(dReq[c]) = 1
    /\ dpc[c] = "done" <=> dOut[c].t \in {"returned", "threw"}
    /\ dpc[c] # "done" <=> dOut[c] = NoOutcome

NoRetriesWitness ==
  \E c \in Calls :
    /\ dpc[c] = "done" /\ dOut[c].t = "threw" /\ Len(dReq[c]) = 1
    /\ dResp[c].t = "response" /\ ~dResp[c].ok

\* C8: the provider's name, config and staticModels stay as constructed,
\* and the outcome of every finished getDynamicModels call is the one its
\* own key and its own response give, whatever the other calls did.
NothingPersists ==
  /\ name = ProviderName /\ config = ProviderConfig /\ staticModels = StaticModels
  /\ \A c \in Calls :
       dpc[c] = "done" /\ dResp[c].t = "response" /\ dResp[c].ok =>
         dOut[c] = ListModels(dResp[c], ProviderName)
  /\ \A c, d \in Calls :
       /\ dpc[c] = "done" /\ dpc[d] = "done"
       /\ dKey[c] = dKey[d] /\ dReq[c] = dReq[d] /\ dResp[c] = dResp[d]
       => dOut[c] = dOut[d]

NothingPersistsWitness ==
  /\ \E c, d \in Calls :
       /\ dOut[c].t = "returned" /\ dOut[d].t = "returned"
       /\ dOut[c].list # dOut[d].list
  /\ \E h \in Instances : iOut[h].t = "handle"
  /\ \E h \in Instances : iOut[h].t = "threw"

PassesThrough ==
  /\ Len(fwd) = Len(sent)
  /\ \A i \in 1..Len(sent) :
       LET o == sent[i].opts
           absent == o.t = "undefined" \/ o.body.t = "undefined"
                     \/ (o.body.t = "string" /\ o.body.s = <<>>)
           isString == ~absent /\ o.body.t = "string"
           hasText == isString /\ Includes(o.body.s, <<"\"">> \o txtSystemInstruction \o <<"\"">>)
           parsed == IF isString THEN JsonParse(o.body.s) ELSE ParseFail
           noField == /\ parsed.ok /\ parsed.v.t = "object"
                      /\ ~Truthy(GetMember(parsed.v.members, txtSystemInstruction))
       IN /\ fwd[i].url = sent[i].url
          /\ (absent \/ ~isString \/ ~hasText \/ ~parsed.ok \/ noField) => fwd[i].opts = o

PassesThroughWitness ==
  /\ Len(sent) = 1 /\ Len(fwd) = 1 /\ warned = 1
  /\ fwd[1].opts = sent[1].opts
  /\ fwd[1].url = sent[1].url
  /\ Includes(sent[1].opts.body.s, <<"\"">> \o txtSystemInstruction \o <<"\"">>)

\* C10: the passes of one opts object through the patched fetch all
\* forward the same body, and a body that is an object with
\* 'system_instruction' and without 'systemInstruction' is forwarded as
\* it was.
PatchIsIdempotent ==
  /\ \A i, j \in 1..Len(fwd) : BodyOf(fwd[i].opts) = BodyOf(fwd[j].opts)
  /\ \A i \in 1..Len(sent) :
       LET before == BodyOf(sent[i].opts)
           parsed == IF before.t = "string" THEN JsonParse(before.s) ELSE ParseFail
       IN (parsed.ok /\ parsed.v.t = "object"
             /\ HasMember(parsed.v.members, txtSystemUnderscore)
             /\ ~HasMember(parsed.v.members, txtSystemInstruction))
          => BodyOf(fwd[i].opts) = before

PatchIsIdempotentWitness ==
  /\ Len(fwd) = 2
  /\ BodyOf(fwd[1].opts) # BodyOf(sent[1].opts)
  /\ sent[2].opts = fwd[1].opts
  /\ BodyOf(fwd[2].opts) = BodyOf(fwd[1].opts)
  /\ Includes(BodyOf(fwd[2].opts).s, <<"\"">> \o txtSystemInstruction \o <<"\"">>)

====
